---- MODULE Spec2Model ----
(***************************************************************************)
(* Model of the Meshtastic node health alerter (src/node-health-alert.py): *)
(* the text parser parse_node_data, the alert rules of check_node_health,  *)
(* the polling loop of NodeHealthMonitor.monitor and main(); and of the    *)
(* dashboard's parser MeshMonitor.parse_nodes (src/mesh-monitor.py).       *)
(*                                                                         *)
(* Python strings are TLA+ strings; the string methods the code calls      *)
(* (split, strip, startswith, in, replace, int, float) are operators that  *)
(* compute character by character with Len, SubSeq and \o.                 *)
(***************************************************************************)
EXTENDS Integers, Sequences, FiniteSets, TLC

(***************************************************************************)
(* Python string methods                                                   *)
(***************************************************************************)

\* s[i], 1-based
At(s, i) == SubSeq(s, i, i)

\* s[i:] (1-based, inclusive)
From(s, i) == SubSeq(s, i, Len(s))

\* the characters str.strip() removes
IsSpace(c) == c \in {" ", "\t", "\n", "\r", "\f"}

IsDigit(c) == c \in {"0", "1", "2", "3", "4", "5", "6", "7", "8", "9"}

DigitVal(c) ==
    CASE c = "0" -> 0 [] c = "1" -> 1 [] c = "2" -> 2 [] c = "3" -> 3
      [] c = "4" -> 4 [] c = "5" -> 5 [] c = "6" -> 6 [] c = "7" -> 7
      [] c = "8" -> 8 [] c = "9" -> 9

\* s.startswith(p)
StartsWith(s, p) == Len(s) >= Len(p) /\ SubSeq(s, 1, Len(p)) = p

\* s.find(p), 1-based; 0 when p does not occur in s
Find(s, p) ==
    LET hits == {i \in 1..(Len(s) - Len(p) + 1) : SubSeq(s, i, i + Len(p) - 1) = p}
    IN  IF hits = {} THEN 0 ELSE CHOOSE i \in hits : \A j \in hits : i <= j

\* p in s
Contains(s, p) == Find(s, p) # 0

\* s.strip()
Strip(s) ==
    LET keep == {i \in 1..Len(s) : ~IsSpace(At(s, i))}
    IN  IF keep = {} THEN ""
        ELSE SubSeq(s, CHOOSE i \in keep : \A j \in keep : i <= j,
                       CHOOSE i \in keep : \A j \in keep : i >= j)

\* s.split(sep): the list of the pieces of s between the occurrences of sep
RECURSIVE Split(_, _)
Split(s, sep) ==
    LET i == Find(s, sep)
    IN  IF i = 0 THEN <<s>>
        ELSE <<SubSeq(s, 1, i - 1)>> \o Split(From(s, i + Len(sep)), sep)

\* s.split(sep, 1) of a string that contains sep: <<before, after>>
SplitFirst(s, sep) ==
    LET i == Find(s, sep)
    IN  <<SubSeq(s, 1, i - 1), From(s, i + Len(sep))>>

\* s.replace(old, ''): every occurrence of old removed, left to right
RECURSIVE Remove(_, _)
Remove(s, old) ==
    LET i == Find(s, old)
    IN  IF i = 0 THEN s
        ELSE SubSeq(s, 1, i - 1) \o Remove(From(s, i + Len(old)), old)

(***************************************************************************)
(* int(s) and float(s).  A result is a record: kind "err" is ValueError.   *)
(* A finite float is kept exactly as m * 10^e (m, e integers), which is    *)
(* what float() yields for decimal strings of up to 15 significant digits. *)
(***************************************************************************)

\* a run of decimal digits in which single underscores may separate digits
IsDigits(s) ==
    /\ Len(s) > 0
    /\ IsDigit(At(s, 1))
    /\ IsDigit(At(s, Len(s)))
    /\ \A i \in 1..Len(s) : IsDigit(At(s, i)) \/ At(s, i) = "_"
    /\ \A i \in 1..(Len(s) - 1) : ~(At(s, i) = "_" /\ At(s, i + 1) = "_")

\* the value of a run of digits, underscores skipped
RECURSIVE DigitsVal(_)
DigitsVal(s) ==
    IF Len(s) = 0 THEN 0
    ELSE IF At(s, Len(s)) = "_" THEN DigitsVal(SubSeq(s, 1, Len(s) - 1))
    ELSE 10 * DigitsVal(SubSeq(s, 1, Len(s) - 1)) + DigitVal(At(s, Len(s)))

\* the number of digits of a run of digits, underscores skipped
NumDigits(s) == Cardinality({i \in 1..Len(s) : IsDigit(At(s, i))})

HasSign(s) == Len(s) > 0 /\ At(s, 1) \in {"+", "-"}

Unsigned(s) == IF HasSign(s) THEN From(s, 2) ELSE s

SignOf(s) == IF Len(s) > 0 /\ At(s, 1) = "-" THEN -1 ELSE 1

ValueError == [kind |-> "err"]

\* int(s): surrounding whitespace, an optional sign, decimal digits
ParseInt(s) ==
    LET t == Strip(s)
        d == Unsigned(t)
    IN  IF IsDigits(d) THEN [kind |-> "int", v |-> SignOf(t) * DigitsVal(d)]
        ELSE ValueError

RECURSIVE Pow10(_)
Pow10(n) == IF n <= 0 THEN 1 ELSE 10 * Pow10(n - 1)

\* s equals word, letter case ignored (word is lower-case letters)
UpperOf(c) ==
    CASE c = "a" -> "A" [] c = "f" -> "F" [] c = "i" -> "I"
      [] c = "n" -> "N" [] c = "t" -> "T" [] c = "y" -> "Y"
      [] OTHER -> c

EqIgnoreCase(s, word) ==
    /\ Len(s) = Len(word)
    /\ \A i \in 1..Len(s) : At(s, i) \in {At(word, i), UpperOf(At(word, i))}

\* the place of the exponent marker of a float literal, 0 when there is none
ExpAt(s) ==
    LET hits == {i \in 1..Len(s) : At(s, i) \in {"e", "E"}}
    IN  IF hits = {} THEN 0 ELSE CHOOSE i \in hits : \A j \in hits : i <= j

\* float(s): surrounding whitespace, an optional sign, then inf, infinity, nan
\* or digits with an optional fraction and an optional exponent
ParseFloat(s) ==
    LET t    == Strip(s)
        u    == Unsigned(t)
        x    == ExpAt(u)
        mant == IF x = 0 THEN u ELSE SubSeq(u, 1, x - 1)
        ex   == IF x = 0 THEN "" ELSE From(u, x + 1)
        dot  == Find(mant, ".")
        ip   == IF dot = 0 THEN mant ELSE SubSeq(mant, 1, dot - 1)
        fp   == IF dot = 0 THEN "" ELSE From(mant, dot + 1)
        mantOk == /\ ip = "" \/ IsDigits(ip)
                  /\ fp = "" \/ IsDigits(fp)
                  /\ ~(ip = "" /\ fp = "")
        expOk  == x = 0 \/ IsDigits(Unsigned(ex))
        expVal == IF x = 0 THEN 0 ELSE SignOf(ex) * DigitsVal(Unsigned(ex))
    IN  IF EqIgnoreCase(u, "nan") THEN [kind |-> "nan"]
        ELSE IF EqIgnoreCase(u, "inf") \/ EqIgnoreCase(u, "infinity")
        THEN [kind |-> "inf", neg |-> SignOf(t) = -1]
        ELSE IF mantOk /\ expOk
        THEN [kind |-> "num",
              m |-> SignOf(t) * (DigitsVal(ip) * Pow10(NumDigits(fp)) + DigitsVal(fp)),
              e |-> expVal - NumDigits(fp)]
        ELSE ValueError

\* x < n for a parsed float x and an integer n (a comparison with nan is False)
FloatLess(x, n) ==
    CASE x.kind = "nan" -> FALSE
      [] x.kind = "inf" -> x.neg
      [] x.kind = "num" -> IF x.e >= 0 THEN x.m * Pow10(x.e) < n
                           ELSE x.m < n * Pow10(-x.e)

(***************************************************************************)
(* Python dicts with string keys: functions whose domain is the key set    *)
(***************************************************************************)

EmptyDict == [k \in {} |-> ""]

\* d[k] = v
DictSet(d, k, v) == [j \in DOMAIN d \cup {k} |-> IF j = k THEN v ELSE d[j]]

\* d.get(k, default)
DictGet(d, k, default) == IF k \in DOMAIN d THEN d[k] ELSE default

(***************************************************************************)
(* Program constants                                                       *)
(***************************************************************************)

\* CHECK_INTERVAL = 300
CHECK_INTERVAL == 300

\* BATTERY_THRESHOLD = 20
BATTERY_THRESHOLD == 20

\* the 3600 of "(time.time() - self.alert_count[alert_key]) > 3600"
ALERT_COOLDOWN == 3600

\* the -10 of "if snr < -10"
SNR_THRESHOLD == -10

(***************************************************************************)
(* NodeHealthMonitor.parse_node_data                                       *)
(***************************************************************************)

\* the for loop over lines, from line i on
\* variant: the loop goes on into the blocks of the nodes that follow
BlockEnds_Never(line) == FALSE

\* if line.startswith('!'): break ("Next node")
BlockEnds(line) == StartsWith(line, "!")

RECURSIVE ParseLoop(_, _, _, _, _)
ParseLoop(lines, i, target, in_target_node, node_data) ==
    IF i > Len(lines) THEN node_data
    ELSE LET line == lines[i]
             kv   == SplitFirst(line, ":")
         IN  IF Strip(line) = target
             THEN ParseLoop(lines, i + 1, target, TRUE, node_data)
             ELSE IF ~in_target_node
             THEN ParseLoop(lines, i + 1, target, FALSE, node_data)
             ELSE IF BlockEnds(line)
             THEN node_data
             ELSE IF Contains(line, ":")
             THEN ParseLoop(lines, i + 1, target, TRUE,
                            DictSet(node_data, Strip(kv[1]), Strip(kv[2])))
             ELSE ParseLoop(lines, i + 1, target, TRUE, node_data)

parse_node_data(text, target) ==
    ParseLoop(Split(text, "\n"), 1, target, FALSE, EmptyDict)

(***************************************************************************)
(* MeshMonitor.parse_nodes (src/mesh-monitor.py): the node list as a dict  *)
(* node id -> dict of the node's fields                                    *)
(***************************************************************************)

\* if line.startswith('  ') ("Node data line")
IsDataLine(line) == StartsWith(line, "  ")

\* the body of "for line in output.split('\n')", from line i on; current_node
\* is <<>> for None
RECURSIVE NodesLoop(_, _, _, _)
NodesLoop(lines, i, current_node, acc) ==
    IF i > Len(lines) THEN acc
    ELSE LET line    == lines[i]
             kv      == SplitFirst(Strip(line), ":")
             node_id == Strip(line)
         IN  IF IsDataLine(line)
             THEN IF /\ Contains(line, ":")
                     /\ current_node # <<>> /\ current_node[1] # ""
                     /\ kv[1] # "" /\ kv[2] # ""
                  THEN NodesLoop(lines, i + 1, current_node,
                                 DictSet(acc, current_node[1],
                                         DictSet(acc[current_node[1]],
                                                 Strip(kv[1]), Strip(kv[2]))))
                  ELSE NodesLoop(lines, i + 1, current_node, acc)
             ELSE IF StartsWith(node_id, "!")
                  THEN NodesLoop(lines, i + 1, <<node_id>>,
                                 DictSet(acc, node_id, EmptyDict))
                  ELSE NodesLoop(lines, i + 1, current_node, acc)

parse_nodes(text) == NodesLoop(Split(text, "\n"), 1, <<>>, EmptyDict)

(***************************************************************************)
(* NodeHealthMonitor.check_node_health                                     *)
(*                                                                         *)
(* self is the record of the monitor's fields last_seen, battery_status    *)
(* and alert_count; t is the value time.time() returns during the call.    *)
(* A result is [alerts, self]: the list returned and the fields after.     *)
(***************************************************************************)

Alert(cat, node) == [cat |-> cat, node |-> node]

\* if not node_data
NodeAbsent(data) == DOMAIN data = {}

\* variant: the membership test left out
KnownNode_Always(self, node) == TRUE

\* variant: known nodes looked up in battery_status instead of last_seen
KnownNode_ByBattery(self, node) == node \in DOMAIN self.battery_status

\* if node_id in self.last_seen
KnownNode(self, node) == node \in DOMAIN self.last_seen

\* variant: the threshold itself does not count as low
BatteryLow_Strict(level) == level < BATTERY_THRESHOLD

\* if battery_level <= BATTERY_THRESHOLD
BatteryLow(level) == level <= BATTERY_THRESHOLD

\* if snr < -10
SignalWeak(snr) == FloatLess(snr, SNR_THRESHOLD)

\* variant: one low-battery key for all nodes
BatteryKey_Global(node) == "_battery"

\* alert_key = f"{node_id}_battery"
BatteryKey(node) == node \o "_battery"

\* variant: the signal alert rate-limited under the battery alert's key
SnrKey_Shared(node) == node \o "_battery"

SnrKey(node) == node \o "_snr"

\* variant: the cooldown ends at 3600 seconds instead of after them
CooldownOver_Inclusive(self, alert_key, t) ==
    \/ alert_key \notin DOMAIN self.alert_count
    \/ (t - self.alert_count[alert_key]) >= ALERT_COOLDOWN

\* alert_key not in self.alert_count or (time.time() - self.alert_count[alert_key]) > 3600
CooldownOver(self, alert_key, t) ==
    \/ alert_key \notin DOMAIN self.alert_count
    \/ (t - self.alert_count[alert_key]) > ALERT_COOLDOWN

\* self.alert_count[alert_key] = time.time()
RecordAlert(self, alert_key, t) ==
    [self EXCEPT !.alert_count = DictSet(@, alert_key, t)]

\* variant: a node reported offline is forgotten
OfflineBranch_Forget(self, node, r) ==
    [alerts |-> IF KnownNode(self, node)
                THEN Append(r.alerts, Alert("offline", node))
                ELSE r.alerts,
     self   |-> [r.self EXCEPT !.last_seen =
                     [n \in DOMAIN r.self.last_seen \ {node} |-> r.self.last_seen[n]]]]

\* the node is not in the node list
OfflineBranch(self, node, r) ==
    [alerts |-> IF KnownNode(self, node)
                THEN Append(r.alerts, Alert("offline", node))
                ELSE r.alerts,
     self   |-> r.self]

\* variant: a node that is seen gets its alert history cleared
UpdateLastSeen_ResetAlerts(self, node, t) ==
    [self EXCEPT !.last_seen = DictSet(@, node, t), !.alert_count = EmptyDict]

\* self.last_seen[node_id] = time.time()
UpdateLastSeen(self, node, t) ==
    [self EXCEPT !.last_seen = DictSet(@, node, t)]

\* "Check battery level"
BatteryCheck(node, data, t, r) ==
    LET battery_str   == DictGet(data, "Battery", "")
        battery_level == ParseInt(Strip(Remove(battery_str, "%")))
        alert_key     == BatteryKey(node)
        fire          == /\ BatteryLow(battery_level.v)
                         /\ CooldownOver(r.self, alert_key, t)
        fired         == IF fire THEN RecordAlert(r.self, alert_key, t) ELSE r.self
    IN  IF battery_str # "" /\ Contains(battery_str, "%") /\ battery_level.kind = "int"
        THEN [alerts |-> IF fire
                         THEN Append(r.alerts, Alert("low-battery", node))
                         ELSE r.alerts,
              self   |-> [fired EXCEPT !.battery_status =
                                            DictSet(@, node, battery_level.v)]]
        ELSE r

\* "Check SNR (signal quality)"
SnrCheck(node, data, t, r) ==
    LET snr_str   == DictGet(data, "SNR", "")
        snr       == ParseFloat(Strip(Remove(snr_str, "dB")))
        alert_key == SnrKey(node)
        fire      == /\ SignalWeak(snr)
                     /\ CooldownOver(r.self, alert_key, t)
    IN  IF snr_str # "" /\ Contains(snr_str, "dB") /\ snr.kind # "err" /\ fire
        THEN [alerts |-> Append(r.alerts, Alert("weak-signal", node)),
              self   |-> RecordAlert(r.self, alert_key, t)]
        ELSE r

\* variant: the signal check made before the battery check
check_node_health_SnrFirst(self, node, data, t) ==
    LET start == [alerts |-> <<>>, self |-> self]
    IN  IF NodeAbsent(data)
        THEN OfflineBranch(self, node, start)
        ELSE BatteryCheck(node, data, t,
                 SnrCheck(node, data, t,
                     [start EXCEPT !.self = UpdateLastSeen(self, node, t)]))

check_node_health(self, node, data, t) ==
    LET start == [alerts |-> <<>>, self |-> self]
    IN  IF NodeAbsent(data)
        THEN OfflineBranch(self, node, start)
        ELSE SnrCheck(node, data, t,
                 BatteryCheck(node, data, t,
                     [start EXCEPT !.self = UpdateLastSeen(self, node, t)]))

(***************************************************************************)
(* Bounds and inputs                                                       *)
(***************************************************************************)

\* polling cycles the loop of monitor() may start
MaxCycles == 4

\* direct calls of check_node_health in the call-level specification
MaxCalls == 11

\* direct calls of check_node_health in the observation-level specification
MaxObservations == 5

\* the value of time.time() when monitoring starts
StartTime == 1000

\* self.critical_nodes, the --nodes argument
critical_nodes == <<"!a", "!b">>

\* what the external tool may write to standard output
Outputs ==
    { "!a\n  Battery: 15%\n  SNR: -12.3dB\n!b\n  User: Bob\n",
      "!a\n  Battery: 20%\n  SNR: -10dB\n",
      "!a\n  Battery: 21%\n  SNR: 5.5dB\n!b\n  Battery: 15%\n",
      "!a\n!b\n  SNR: -10.5dB\n",
      "!b\n  Battery: n/a%\n  SNR: lowdB\n  no separator\n",
      "!c\n  Battery: 5%\n",
      "" }

\* what it may have written when it exits with a non-zero status
FailedOutputs ==
    { "", "!a\n  Battery: 15%\n  SNR: -12.3dB\n!b\n  User: Bob\n" }

\* seconds a cycle takes besides the interval it sleeps
CycleSeconds == {0, 1}

\* the field maps and the spacing of the calls of the call-level specification:
\* a node whose battery stays at or below the threshold
LowBatteryMaps ==
    { [Battery |-> "10%"], [Battery |-> "20%"], [Battery |-> "0%", SNR |-> "2.5dB"] }

CallSteps == {60, ALERT_COOLDOWN - 540, ALERT_COOLDOWN - 539}

\* the field maps of the observation-level specification: a node that is in
\* the node list and healthy, or not in it
ObservationMaps == { EmptyDict, [Battery |-> "85%", SNR |-> "6.25dB"] }

\* direct calls of check_node_health in the field-level specification
MaxFieldCalls == 3

\* the nodes, the field maps and the spacing of the calls of the field-level
\* specification: Battery fields that hold an integer inside or outside 0..100
\* or no integer, on two nodes of which one's id ends like an alert key
FieldNodes == {"!a", "!a_snr"}

FieldMaps ==
    { EmptyDict,
      [Battery |-> "-5%"],
      [Battery |-> "150%", SNR |-> "-11dB"],
      [Battery |-> "n/a%"],
      [Battery |-> "15%", SNR |-> "-12.3dB"],
      [Battery |-> "100%"] }

FieldSteps == {ALERT_COOLDOWN \div 2, ALERT_COOLDOWN \div 2 + 1}

\* lines a parsed text may have
MaxLines == 4

\* the lines the texts of the parser-level specification are made of: headers,
\* field lines indented by two spaces or by one, a field with an empty value,
\* an indented header, an empty line
ParseLines ==
    { "!a", "!b", "  k: 1", "  k: 2:3", " j: 4", "  m:", " !c: 6", "  !b", "" }

\* the texts of n lines
RECURSIVE TextsOf(_)
TextsOf(n) ==
    IF n = 1 THEN ParseLines
    ELSE {t \o "\n" \o line : t \in TextsOf(n - 1), line \in ParseLines}

Texts == UNION {TextsOf(n) : n \in 1..MaxLines}

\* the node ids looked up in a text
Targets == {"!a", "!b"}

\* what --interval may hold on the command line
IntervalArgs == {"3600", "-1", "soon"}

(***************************************************************************)
(* State                                                                   *)
(***************************************************************************)

VARIABLES
    last_seen,       \* self.last_seen: node id -> time of its last present check
    battery_status,  \* self.battery_status: node id -> last battery level parsed
    alert_count,     \* self.alert_count: alert key -> time the alert last fired
    now,             \* the clock, time.time()
    pc,              \* where the driver is: "main", "fetch", "check", "sleep", "stopped",
                     \* "rejected", "crashed"; "call", "observe", "fields", "parse"
                     \* in the call-level specifications
    cycle,           \* the local cycle of monitor()
    result,          \* what subprocess.run did in get_nodes
    output,          \* the local output of monitor(): <<>> is None, <<s>> the string s
    idx,             \* position of the for loop in critical_nodes
    exit_code,       \* <<>> while running, <<c>> after sys.exit(c)
    node_id,         \* the node of the latest check_node_health call
    node_data,       \* the field map of the latest check_node_health call
    alerts,          \* the list the latest check_node_health call returned
    calls,           \* check_node_health calls made so far
    last_obs,        \* history: node id -> "none", "present" or "absent", its latest observation
    prev_obs,        \* history: last_obs of node_id before the latest call
    seen_present,    \* history: the nodes that had a present observation
    fired,           \* history: <<node id, category>> -> times at which that alert was printed
    check_interval,  \* the global CHECK_INTERVAL as main() leaves it
    report,          \* what monitor() printed for node_id: "alerts", "healthy", "none" before
    nodes            \* the dict parse_nodes returned for output

health == <<last_seen, battery_status, alert_count>>

driver == <<pc, cycle, result, output, idx, exit_code>>

call == <<node_id, node_data, alerts, calls>>

hist == <<last_obs, prev_obs, seen_present, fired>>

config == <<check_interval>>

views == <<report, nodes>>

vars == <<health, now, driver, call, hist, config, views>>

Self == [last_seen |-> last_seen, battery_status |-> battery_status,
         alert_count |-> alert_count]

None == <<>>

Nodes == {critical_nodes[i] : i \in 1..Len(critical_nodes)}

\* NodeHealthMonitor.__init__
InitMonitor ==
    /\ last_seen = EmptyDict
    /\ battery_status = EmptyDict
    /\ alert_count = EmptyDict
    /\ now = StartTime
    /\ cycle = 0
    /\ result = [kind |-> "none"]
    /\ output = None
    /\ idx = 1
    /\ exit_code = None
    /\ node_id = ""
    /\ node_data = EmptyDict
    /\ alerts = <<>>
    /\ calls = 0
    /\ last_obs = [n \in Nodes \cup FieldNodes |-> "none"]
    /\ prev_obs = "none"
    /\ seen_present = {}
    /\ fired = EmptyDict
    /\ report = "none"
    /\ nodes = EmptyDict

\* the start of monitor(), run with an --interval of one cooldown
Init == InitMonitor /\ pc = "fetch" /\ check_interval = ALERT_COOLDOWN

(***************************************************************************)
(* Operations                                                              *)
(***************************************************************************)

\* print(alert) for each alert of the list: the time is added to the alert's history
RECURSIVE LogAlerts(_, _, _)
LogAlerts(log, list, t) ==
    IF list = <<>> THEN log
    ELSE LET k == <<Head(list).node, Head(list).cat>>
         IN  LogAlerts(DictSet(log, k, Append(DictGet(log, k, <<>>), t)), Tail(list), t)

\* alerts = self.check_node_health(node_id, node_data) at time t, and the
\* printing of the alerts
CallCheck(node, data, t) ==
    LET r == check_node_health(Self, node, data, t)
    IN  /\ node_id' = node
        /\ node_data' = data
        /\ alerts' = r.alerts
        /\ last_seen' = r.self.last_seen
        /\ battery_status' = r.self.battery_status
        /\ alert_count' = r.self.alert_count
        /\ calls' = calls + 1
        /\ prev_obs' = last_obs[node]
        /\ last_obs' = [last_obs EXCEPT ![node] =
                            IF DOMAIN data = {} THEN "absent" ELSE "present"]
        /\ seen_present' = IF DOMAIN data = {} THEN seen_present
                           ELSE seen_present \cup {node}
        /\ fired' = LogAlerts(fired, r.alerts, t)

\* get_nodes raises inside subprocess.run (timeout, tool not found) and returns
\* None; monitor() prints "Failed to fetch node list" and sleeps
FetchRaises ==
    /\ pc = "fetch"
    /\ cycle < MaxCycles
    /\ cycle' = cycle + 1
    /\ result' = [kind |-> "raised"]
    /\ output' = None
    /\ pc' = "sleep"
    /\ UNCHANGED <<health, now, idx, exit_code, call, hist, config, views>>

\* get_nodes returns result.stdout, whatever the exit status; monitor() goes on
\* to the nodes when the output is not empty
FetchReturns ==
    /\ pc = "fetch"
    /\ cycle < MaxCycles
    /\ cycle' = cycle + 1
    /\ \E rc \in {0, 1} :
       \E out \in IF rc = 0 THEN Outputs ELSE FailedOutputs :
          /\ result' = [kind |-> "completed", returncode |-> rc, stdout |-> out]
          /\ output' = <<out>>
          /\ IF out = "" \/ Len(critical_nodes) = 0
             THEN pc' = "sleep" /\ idx' = idx
             ELSE pc' = "check" /\ idx' = 1
    /\ UNCHANGED <<health, now, exit_code, call, hist, config, views>>

\* one iteration of "for node_id in self.critical_nodes": the node's block is
\* parsed and checked, and either its alerts or the "is healthy" line printed
CheckNode ==
    /\ pc = "check"
    /\ idx <= Len(critical_nodes)
    /\ CallCheck(critical_nodes[idx],
                 parse_node_data(output[1], critical_nodes[idx]), now)
    /\ report' = IF alerts' # <<>> THEN "alerts" ELSE "healthy"
    /\ idx' = idx + 1
    /\ pc' = IF idx = Len(critical_nodes) THEN "sleep" ELSE "check"
    /\ UNCHANGED <<now, cycle, result, output, exit_code, config, nodes>>

\* time.sleep(CHECK_INTERVAL), then the next iteration of "while True"
Sleep ==
    /\ pc = "sleep"
    /\ check_interval >= 0
    /\ \E dt \in CycleSeconds : now' = now + check_interval + dt
    /\ pc' = "fetch"
    /\ UNCHANGED <<health, cycle, result, output, idx, exit_code, call, hist,
                   config, views>>

\* time.sleep raises ValueError for a negative length; monitor() catches
\* KeyboardInterrupt only, so the error ends the program with status 1
SleepRaises ==
    /\ pc = "sleep"
    /\ check_interval < 0
    /\ pc' = "crashed"
    /\ exit_code' = <<1>>
    /\ UNCHANGED <<health, now, cycle, result, output, idx, call, hist, config, views>>

\* except KeyboardInterrupt: sys.exit(0)
Interrupt ==
    /\ pc \in {"fetch", "check", "sleep"}
    /\ pc' = "stopped"
    /\ exit_code' = <<0>>
    /\ UNCHANGED <<health, now, cycle, result, output, idx, call, hist, config, views>>

Next == FetchRaises \/ FetchReturns \/ CheckNode \/ Sleep \/ Interrupt

Spec == Init /\ [][Next]_vars

(***************************************************************************)
(* Program-level specification: main() reads --interval, then monitor()    *)
(* runs with it                                                            *)
(***************************************************************************)

InitMain == InitMonitor /\ pc = "main" /\ check_interval = CHECK_INTERVAL

\* main(): argparse converts --interval with int and exits with status 2 when
\* it cannot; any integer becomes CHECK_INTERVAL, and monitor() is called
Main ==
    /\ pc = "main"
    /\ \E arg \in IntervalArgs :
          LET interval == ParseInt(arg)
          IN  IF interval.kind = "err"
              THEN pc' = "rejected" /\ exit_code' = <<2>> /\ UNCHANGED check_interval
              ELSE pc' = "fetch" /\ check_interval' = interval.v /\ UNCHANGED exit_code
    /\ UNCHANGED <<health, now, cycle, result, output, idx, call, hist, views>>

NextMain ==
    Main \/ FetchRaises \/ FetchReturns \/ CheckNode \/ Sleep \/ SleepRaises \/ Interrupt

SpecMain == InitMain /\ [][NextMain]_vars

(***************************************************************************)
(* Call-level specification: check_node_health called directly, without    *)
(* the polling loop, on one node whose battery stays low, the first call   *)
(* at StartTime and each later call some CallSteps after the one before    *)
(***************************************************************************)

InitCalls == InitMonitor /\ pc = "call" /\ check_interval = CHECK_INTERVAL

DirectCall ==
    /\ pc = "call"
    /\ calls < MaxCalls
    /\ \E dt \in CallSteps : now' = IF calls = 0 THEN now ELSE now + dt
    /\ \E data \in LowBatteryMaps : CallCheck(critical_nodes[1], data, now')
    /\ UNCHANGED <<driver, config, views>>

NextCalls == DirectCall

SpecCalls == InitCalls /\ [][NextCalls]_vars

(***************************************************************************)
(* Observation-level specification: check_node_health called directly on   *)
(* the monitored nodes, each either present and healthy or absent, one     *)
(* call every CHECK_INTERVAL                                               *)
(***************************************************************************)

InitObservations == InitMonitor /\ pc = "observe" /\ check_interval = CHECK_INTERVAL

Observe ==
    /\ pc = "observe"
    /\ calls < MaxObservations
    /\ now' = IF calls = 0 THEN now ELSE now + CHECK_INTERVAL
    /\ \E n \in Nodes : \E data \in ObservationMaps : CallCheck(n, data, now')
    /\ UNCHANGED <<driver, config, views>>

NextObservations == Observe

SpecObservations == InitObservations /\ [][NextObservations]_vars

(***************************************************************************)
(* Field-level specification: check_node_health called directly on the     *)
(* FieldNodes with the FieldMaps, each call some FieldSteps after the one  *)
(* before                                                                  *)
(***************************************************************************)

InitFields == InitMonitor /\ pc = "fields" /\ check_interval = CHECK_INTERVAL

CheckFields ==
    /\ pc = "fields"
    /\ calls < MaxFieldCalls
    /\ \E dt \in FieldSteps : now' = now + dt
    /\ \E n \in FieldNodes : \E data \in FieldMaps : CallCheck(n, data, now')
    /\ UNCHANGED <<driver, config, views>>

NextFields == CheckFields

SpecFields == InitFields /\ [][NextFields]_vars

(***************************************************************************)
(* Parser-level specification: one of the Texts is parsed by parse_nodes   *)
(* and, for one of the Targets, by parse_node_data                         *)
(***************************************************************************)

InitParse == InitMonitor /\ pc = "parse" /\ check_interval = CHECK_INTERVAL

ParseText ==
    /\ pc = "parse"
    /\ \E text \in Texts : \E target \in Targets :
          /\ output' = <<text>>
          /\ nodes' = parse_nodes(text)
          /\ node_id' = target
          /\ node_data' = parse_node_data(text, target)
    /\ pc' = "parsed"
    /\ UNCHANGED <<health, now, cycle, result, idx, exit_code, alerts, calls, hist,
                   config, report>>

NextParse == ParseText

SpecParse == InitParse /\ [][NextParse]_vars

(***************************************************************************)
(* Properties                                                              *)
(***************************************************************************)

HasAlert(list, cat) == \E i \in 1..Len(list) : list[i].cat = cat

\* how often the alert of a category was printed for a node
TimesFired(node, cat) == Len(DictGet(fired, <<node, cat>>, <<>>))

\* the latest step was a check_node_health call (true in the state the call leaves)
IsCall == calls' = calls + 1

\* the integer a Battery field holds, ValueError when it holds none
BatteryOf(data) ==
    LET str == DictGet(data, "Battery", "")
    IN  IF Contains(str, "%") THEN ParseInt(Strip(Remove(str, "%"))) ELSE ValueError

\* the number an SNR field holds, ValueError when it holds none
SnrOf(data) ==
    LET str == DictGet(data, "SNR", "")
    IN  IF Contains(str, "dB") THEN ParseFloat(Strip(Remove(str, "dB"))) ELSE ValueError

\* the suppression entry of key is missing, or more than the cooldown older than t
EntryExpired(entries, key, t) ==
    key \notin DOMAIN entries \/ t - entries[key] > 3600

\* the suppression entry of key is the same in both dicts
SameEntry(before, after, key) ==
    /\ (key \in DOMAIN before) = (key \in DOMAIN after)
    /\ key \in DOMAIN before => before[key] = after[key]

\* C1: an OFFLINE alert is emitted only on an absent observation of a node
\* whose immediately preceding observation was present (so a second absent
\* observation in a row emits none).
C1_OfflineOnlyOnEdge ==
    HasAlert(alerts, "offline") => DOMAIN node_data = {} /\ prev_obs = "present"

\* C3: a check of a node that never had a present observation, with an empty
\* field map, emits no OFFLINE alert (indeed no alert), however many absent
\* observations came before.
C3_NeverSeenNoOffline ==
    (calls > 0 /\ DOMAIN node_data = {} /\ node_id \notin seen_present)
        => ~HasAlert(alerts, "offline") /\ alerts = <<>>

C3_Witness ==
    /\ DOMAIN node_data = {}
    /\ node_id \notin seen_present
    /\ prev_obs = "absent"
    /\ seen_present # {}
    /\ alerts = <<>>

\* C2: in a run of calls on a node whose battery stays at or below the
\* threshold, the first call emits a low-battery alert, any two low-battery
\* alerts of the node are more than 3600 apart, calls spaced 60 apart yield
\* exactly one alert through the 10th call, and the call 3601 after the first
\* yields the second.
C2_LowBatteryDedup ==
    LET log == DictGet(fired, <<critical_nodes[1], "low-battery">>, <<>>)
    IN  /\ calls > 0 => Len(log) > 0 /\ log[1] = StartTime
        /\ \A i, j \in 1..Len(log) : i < j => log[j] - log[i] > 3600
        /\ (calls \in 1..10 /\ now = StartTime + 60 * (calls - 1)) => Len(log) = 1
        /\ (calls = 11 /\ now = StartTime + 3601)
              => log = <<StartTime, StartTime + 3601>>

C2_Witness ==
    /\ calls = 11
    /\ now = StartTime + 3601
    /\ TimesFired(critical_nodes[1], "low-battery") = 2
    /\ HasAlert(alerts, "low-battery")

\* the tool timed out, could not be run, or exited with a non-zero status
FetchFailed ==
    \/ result.kind = "raised"
    \/ result.kind = "completed" /\ result.returncode # 0

\* C4: in a cycle whose fetch failed (timeout, tool not runnable, non-zero
\* exit status whatever the output), no node is evaluated, no alert is emitted
\* and last_seen, alert_count and battery_status stay as they were.
C4_FailedFetchNoEvaluation ==
    [][FetchFailed' => UNCHANGED <<health, calls, fired>>]_vars

\* the low-battery rule of one call on a present node: the alert fires iff the
\* Battery field holds an integer <= the threshold and the entry has expired;
\* firing sets the entry to the time of the call, not firing leaves it
BatteryRule(node, data, before, after, list, t) ==
    LET key   == node \o "_battery"
        level == BatteryOf(data)
        fires == HasAlert(list, "low-battery")
    IN  /\ fires <=> /\ level.kind = "int"
                     /\ level.v <= BATTERY_THRESHOLD
                     /\ EntryExpired(before, key, t)
        /\ fires => key \in DOMAIN after /\ after[key] = t
        /\ ~fires => SameEntry(before, after, key)

\* the weak-signal rule of one call on a present node, likewise, with the
\* entry of its own
SnrRule(node, data, before, after, list, t) ==
    LET key   == node \o "_snr"
        snr   == SnrOf(data)
        fires == HasAlert(list, "weak-signal")
    IN  /\ fires <=> /\ snr.kind # "err"
                     /\ FloatLess(snr, -10)
                     /\ EntryExpired(before, key, t)
        /\ fires => key \in DOMAIN after /\ after[key] = t
        /\ ~fires => SameEntry(before, after, key)

C6_WeakSignalRule ==
    [][(IsCall /\ DOMAIN node_data' # {})
          => /\ SnrRule(node_id', node_data', alert_count, alert_count', alerts', now')
             /\ node_id' \o "_snr" # node_id' \o "_battery"]_vars

C6_Witness ==
    /\ alerts = <<[cat |-> "low-battery", node |-> node_id]>>
    /\ SnrOf(node_data).kind = "num"
    /\ FloatLess(SnrOf(node_data), -10)
    /\ node_id \o "_snr" \in DOMAIN alert_count
    /\ alert_count[node_id \o "_snr"] = now - 3600
    /\ alert_count[node_id \o "_battery"] = now

Rank(cat) ==
    CASE cat = "offline" -> 1 [] cat = "low-battery" -> 2 [] cat = "weak-signal" -> 3

\* C7: the alerts one call returns are all for the node checked and stand in
\* the order offline, low-battery, weak-signal; the first call ever, on a node
\* with Battery 15% and SNR -12.3dB, returns low-battery then weak-signal and
\* leaves both suppression entries at the time of the call.
C7_AlertOrder ==
    /\ \A i, j \in 1..Len(alerts) : i < j => Rank(alerts[i].cat) < Rank(alerts[j].cat)
    /\ \A i \in 1..Len(alerts) : alerts[i].node = node_id
    /\ (calls = 1 /\ pc = "check" /\ node_data = [Battery |-> "15%", SNR |-> "-12.3dB"])
          => /\ alerts = <<[cat |-> "low-battery", node |-> node_id],
                           [cat |-> "weak-signal", node |-> node_id]>>
             /\ DOMAIN alert_count = {node_id \o "_battery", node_id \o "_snr"}
             /\ \A k \in DOMAIN alert_count : alert_count[k] = now

C7_Witness ==
    /\ calls = 1
    /\ now = 1000
    /\ node_id = "!a"
    /\ node_data = [Battery |-> "15%", SNR |-> "-12.3dB"]
    /\ alerts = <<[cat |-> "low-battery", node |-> "!a"],
                  [cat |-> "weak-signal", node |-> "!a"]>>
    /\ alert_count["!a_battery"] = 1000
    /\ alert_count["!a_snr"] = 1000

\* a line of the text is the node's header (the line, trimmed, is the node id)
HeaderAppears(text, node) ==
    LET lines == Split(text, "\n")
    IN  \E i \in 1..Len(lines) : Strip(lines[i]) = node

\* the latest check_node_health call was made in the current cycle, on output
CheckedThisCycle ==
    /\ pc \in {"check", "sleep"}
    /\ output # None
    /\ output[1] # ""
    /\ idx > 1

\* C8: in a cycle with a successful fetch, a monitored node is treated as
\* present (no OFFLINE alert, recorded as seen now) iff its header line
\* appears in the fetched output, also when no field line follows the header.
C8_PresentIffHeader ==
    CheckedThisCycle =>
        (HeaderAppears(output[1], node_id)
            <=> /\ ~HasAlert(alerts, "offline")
                /\ node_id \in DOMAIN last_seen
                /\ last_seen[node_id] = now)

\* C9: a check with an empty field map of a node that was seen present before
\* returns exactly one OFFLINE alert and nothing else, whatever battery level
\* and suppression entries are recorded for the node.
C9_AbsentKnownNode ==
    (calls > 0 /\ DOMAIN node_data = {} /\ node_id \in seen_present)
        => alerts = <<[cat |-> "offline", node |-> node_id]>>

C9_Witness ==
    /\ DOMAIN node_data = {}
    /\ node_id \in seen_present
    /\ alerts = <<[cat |-> "offline", node |-> node_id]>>
    /\ node_id \in DOMAIN battery_status
    /\ battery_status[node_id] <= BATTERY_THRESHOLD
    /\ node_id \o "_battery" \in DOMAIN alert_count
    /\ node_id \o "_snr" \in DOMAIN alert_count
    /\ now - alert_count[node_id \o "_battery"] > 3600

\* C10: a check that finds a node present after an absent observation emits
\* no OFFLINE alert and treats the low-battery and weak-signal entries as any
\* other check does (alert_count changes only where an alert fires by its
\* rule); a check that finds a node absent after a present observation emits
\* the OFFLINE alert, also when the node was offline and recovered before.
C10_RecoveryRearms ==
    [][IsCall =>
        /\ (last_obs[node_id'] = "absent" /\ DOMAIN node_data' # {})
              => /\ ~HasAlert(alerts', "offline")
                 /\ BatteryRule(node_id', node_data', alert_count, alert_count',
                                alerts', now')
                 /\ SnrRule(node_id', node_data', alert_count, alert_count',
                            alerts', now')
                 /\ \A k \in (DOMAIN alert_count \cup DOMAIN alert_count')
                              \ {node_id' \o "_battery", node_id' \o "_snr"} :
                        SameEntry(alert_count, alert_count', k)
        /\ (last_obs[node_id'] = "present" /\ DOMAIN node_data' = {})
              => alerts' = <<[cat |-> "offline", node |-> node_id']>>]_vars

C10_Witness ==
    /\ prev_obs = "present"
    /\ DOMAIN node_data = {}
    /\ HasAlert(alerts, "offline")
    /\ TimesFired(node_id, "offline") >= 2

\* C11: every battery level recorded in battery_status, and every level that
\* decided a low-battery alert, is an integer from 0 to 100; a Battery field
\* that holds no such value triggers no low-battery alert.
C11_BatteryInRange ==
    LET level == BatteryOf(node_data)
    IN  /\ \A n \in DOMAIN battery_status : battery_status[n] \in 0..100
        /\ HasAlert(alerts, "low-battery") => level.kind = "int" /\ level.v \in 0..100
        /\ (calls > 0 /\ level.kind = "err") => ~HasAlert(alerts, "low-battery")

\* the driver is inside the loop of monitor()
InLoop == pc \in {"fetch", "check", "sleep"}

\* C12: the polling loop stops only on an interrupt, and then exits with
\* status 0; no fetch failure and no other error of a cycle ends it.
C12_LoopStopsOnlyOnInterrupt ==
    [][(InLoop /\ ~InLoop') => pc' = "stopped" /\ exit_code' = <<0>>]_vars

\* C13: with an invalid configuration value (a negative interval) the program
\* stops before the first poll cycle and before any health state exists; it
\* never starts the loop and then fails in it.
C13_InvalidConfigStopsAtStartup ==
    check_interval < 0
        => /\ cycle = 0
           /\ calls = 0
           /\ DOMAIN last_seen = {}
           /\ pc # "crashed"

\* a node header line: it begins with "!", with no whitespace before it
IsHeaderLine(line) == StartsWith(line, "!")

\* a field line: it begins with whitespace and contains ":"
IsFieldLine(line) == Len(line) > 0 /\ IsSpace(At(line, 1)) /\ Contains(line, ":")

\* every line of the text is a header line, a field line or blank
WellFormed(text) ==
    LET lines == Split(text, "\n")
    IN  \A i \in 1..Len(lines) :
           IsHeaderLine(lines[i]) \/ IsFieldLine(lines[i]) \/ Strip(lines[i]) = ""

\* the header strings of the text, and whether no two header lines are the same
HeadersOf(text) ==
    LET lines == Split(text, "\n")
    IN  {Strip(lines[i]) : i \in {j \in 1..Len(lines) : IsHeaderLine(lines[j])}}

DistinctHeaders(text) ==
    LET lines == Split(text, "\n")
    IN  \A i, j \in 1..Len(lines) :
           (i < j /\ IsHeaderLine(lines[i]) /\ IsHeaderLine(lines[j]))
              => Strip(lines[i]) # Strip(lines[j])

\* C14: for a text of N header lines (of N different nodes) and otherwise
\* only field lines and blank lines, parse_nodes returns a dict of exactly N
\* entries, whose keys are the header strings.
C14_OneEntryPerHeader ==
    (pc = "parsed" /\ WellFormed(output[1]) /\ DistinctHeaders(output[1]))
        => /\ DOMAIN nodes = HeadersOf(output[1])
           /\ Cardinality(DOMAIN nodes) = Cardinality(HeadersOf(output[1]))

\* C15: parse_nodes stores every field line (a line that is no header, begins
\* with whitespace and contains ":"), split at its first ":" and trimmed on
\* both sides, in the map of the node whose header came last before it, and
\* drops it when no header came before; stated for the last line of the text,
\* which no later line overwrites.
C15_FieldLineStored ==
    pc = "parsed" =>
        LET lines   == Split(output[1], "\n")
            last    == lines[Len(lines)]
            kv      == SplitFirst(last, ":")
            headers == {i \in 1..Len(lines) : IsHeaderLine(lines[i])}
            opened  == Strip(lines[CHOOSE i \in headers : \A j \in headers : j <= i])
        IN  (IsFieldLine(last) /\ ~IsHeaderLine(last))
               => IF headers = {} THEN nodes = EmptyDict
                  ELSE /\ opened \in DOMAIN nodes
                       /\ Strip(kv[1]) \in DOMAIN nodes[opened]
                       /\ nodes[opened][Strip(kv[1])] = Strip(kv[2])

\* C16: parse_node_data returns the empty dict when no line, trimmed, equals
\* the target id; otherwise every field it returns comes from a line after a
\* line that matches the target, with no line that begins with "!" (the next
\* header) from there to the field's line, so never from another node's block.
C16_OnlyOwnBlock ==
    pc = "parsed" =>
        LET lines   == Split(output[1], "\n")
            matches == {i \in 1..Len(lines) : Strip(lines[i]) = node_id}
        IN  /\ matches = {} => node_data = EmptyDict
            /\ \A k \in DOMAIN node_data :
                  \E i \in matches : \E j \in (i + 1)..Len(lines) :
                     /\ \A m \in (i + 1)..j : ~IsHeaderLine(lines[m])
                     /\ Contains(lines[j], ":")
                     /\ Strip(SplitFirst(lines[j], ":")[1]) = k
                     /\ Strip(SplitFirst(lines[j], ":")[2]) = node_data[k]

C16_Witness ==
    /\ pc = "parsed"
    /\ output = <<"!b\n  k: 2:3\n!a\n  k: 1">>
    /\ node_id = "!b"
    /\ node_data = [k |-> "2:3"]
    /\ nodes["!a"] = [k |-> "1"]

\* C19: for a node id whose header appears in the text, parse_node_data
\* returns what parse_nodes holds under that id, and parse_node_data returns
\* the empty dict exactly when the id is no key of what parse_nodes returns.
C19_ParsersAgree ==
    pc = "parsed" =>
        /\ HeaderAppears(output[1], node_id)
              => node_id \in DOMAIN nodes /\ node_data = nodes[node_id]
        /\ node_data = EmptyDict <=> node_id \notin DOMAIN nodes

\* C17: a check_node_health call with an empty field map leaves last_seen,
\* alert_count and battery_status exactly as they were: the node stays in
\* the seen set and no cooldown is reset.
C17_AbsentChangesNothing ==
    [][(IsCall /\ DOMAIN node_data' = {})
          => UNCHANGED <<last_seen, alert_count, battery_status>>]_vars

C17_Witness ==
    /\ calls > 1
    /\ DOMAIN node_data = {}
    /\ node_id \in DOMAIN last_seen
    /\ last_seen[node_id] < now
    /\ node_id \in DOMAIN battery_status
    /\ node_id \o "_battery" \in DOMAIN alert_count
    /\ alerts = <<[cat |-> "offline", node |-> node_id]>>

\* C18: the keys of two different (node, category) pairs are different; a
\* check of one node changes no suppression entry but that node's own two,
\* no other node's last_seen or battery_status, and the alerts it returns
\* for a present node follow from the node's fields and its own two entries.
C18_NodesIsolated ==
    [][IsCall =>
        /\ \A n1, n2 \in FieldNodes :
              /\ BatteryKey(n1) # SnrKey(n2)
              /\ n1 # n2 => BatteryKey(n1) # BatteryKey(n2) /\ SnrKey(n1) # SnrKey(n2)
        /\ \A k \in (DOMAIN alert_count \cup DOMAIN alert_count')
                     \ {node_id' \o "_battery", node_id' \o "_snr"} :
              SameEntry(alert_count, alert_count', k)
        /\ \A n \in (DOMAIN last_seen \cup DOMAIN last_seen') \ {node_id'} :
              SameEntry(last_seen, last_seen', n)
        /\ \A n \in (DOMAIN battery_status \cup DOMAIN battery_status') \ {node_id'} :
              SameEntry(battery_status, battery_status', n)
        /\ DOMAIN node_data' # {}
              => /\ BatteryRule(node_id', node_data', alert_count, alert_count',
                                alerts', now')
                 /\ SnrRule(node_id', node_data', alert_count, alert_count',
                            alerts', now')]_vars

C18_Witness ==
    /\ node_id = "!a_snr"
    /\ alerts = <<[cat |-> "low-battery", node |-> "!a_snr"],
                  [cat |-> "weak-signal", node |-> "!a_snr"]>>
    /\ DOMAIN alert_count = {"!a_battery", "!a_snr", "!a_snr_battery", "!a_snr_snr"}
    /\ alert_count["!a_snr_battery"] = now
    /\ alert_count["!a_snr_snr"] = now
    /\ alert_count["!a_battery"] < now
    /\ alert_count["!a_snr"] < now
    /\ now - alert_count["!a_snr"] <= ALERT_COOLDOWN

\* C20: monitor() prints "is healthy" for a node exactly when the check of
\* the node returned no alert in that cycle, and so only for a node that is
\* in the latest output and has neither a battery at or below the threshold
\* nor an SNR below -10 in that cycle.
C20_HealthyReport ==
    CheckedThisCycle =>
        LET level == BatteryOf(node_data)
            snr   == SnrOf(node_data)
        IN  /\ report = "healthy" <=> alerts = <<>>
            /\ report = "healthy"
                  => /\ HeaderAppears(output[1], node_id)
                     /\ ~(level.kind = "int" /\ level.v <= BATTERY_THRESHOLD)
                     /\ ~(snr.kind # "err" /\ FloatLess(snr, SNR_THRESHOLD))

====
